---- MODULE Spec2Model ----
(***************************************************************************)
(* Model of the distribution/replication layer simulation:                 *)
(*   src/distribution_layer.cpp  DistributionLayer (bootstrap, client API) *)
(*   src/node.h                  Node (routing, replicate-then-commit)     *)
(*   src/command.h               Command, OpType                           *)
(* Every inter-node call (SendCommand, ProcessCommand, PushCommandToLog,    *)
(* ApplyCommand) is one step of the client call that drives it.            *)
(***************************************************************************)
EXTENDS Integers, Sequences, FiniteSets, TLC

VARIABLES
    number_of_nodes,      \* constructor argument, kept as total_nodes_
    replication_factor,   \* constructor argument
    MAX_KEY,              \* global MAX_KEY
    ctor,                 \* position of the constructor: new, ranges, done, thrown
    loop_i,               \* loop variable i of the range loop
    interval_start_to_range_descriptor,  \* the range table (each node holds an identical copy)
    nodes_map_,           \* ids of the nodes that exist
    key_value_store_,     \* node id -> (key -> value)
    log_,                 \* node id -> sequence of commands
    call,                 \* client -> the client call it is running
    nops,                 \* number of client calls started
    ref,                  \* reference map of the single key space (history)
    pre_store,            \* client -> stores when its call started (history)
    pre_log,              \* client -> logs when its call started (history)
    clients               \* the clients that drive the API in this run

vars == <<number_of_nodes, replication_factor, MAX_KEY, ctor, loop_i,
          interval_start_to_range_descriptor, nodes_map_, key_value_store_,
          log_, call, nops, ref, pre_store, pre_log, clients>>

cfgvars == <<number_of_nodes, replication_factor, MAX_KEY>>

(***************************** bounds **************************************)
\* largest node count / replication factor offered to the constructor
MaxNodes == 4
\* largest MAX_KEY offered to the constructor
MaxKeyBound == 8
\* node count of the cluster the client calls run on
OpNodes == 4
\* MAX_KEY of the cluster the client calls run on
OpMaxKey == 9
\* number of client calls in one behaviour
MaxOps == 3
\* number of client calls in one behaviour with concurrent clients
MaxConcOps == 2
\* replication factor of the cluster the client calls run on
OpFactor == 3

Clients == {1, 2}

EmptyMap == [k \in {} |-> 0]

Max(S) == CHOOSE x \in S : \A y \in S : y <= x
Min(S) == CHOOSE x \in S : \A y \in S : x <= y

(************************** bootstrap **************************************)
\* the argument check without the upper limit of the replication factor
ConfigInvalidNoUpper(n, rf) == n < 3 \/ rf < 3

ConfigInvalid(n, rf) == n < 3 \/ rf < 3 \/ rf > n

total_ranges(n) == n * 2

range_size(n, maxkey) == maxkey \div total_ranges(n)

\* a round-robin loop that starts at the leaseholder itself
RemainingReplicasFromLeaseholder(leaseholder, n, rf) ==
    { (leaseholder + j) % n : j \in 0 .. (rf - 3) }

\* the replicas inserted by the round-robin loop
RemainingReplicas(leaseholder, n, rf) ==
    { (leaseholder + 1 + j) % n : j \in 0 .. (rf - 3) }

\* the range loop without the special case of the last range
NewRangeNoRemainder(i, n, rf, maxkey, leader) ==
    LET leaseholder == (leader + 1) % n
    IN [ id             |-> i,
         start          |-> i * range_size(n, maxkey),
         end            |-> (i + 1) * range_size(n, maxkey) - 1,
         leader_id      |-> leader,
         leaseholder_id |-> leaseholder,
         replicas_id    |-> {leader, leaseholder}
                              \cup RemainingReplicas(leaseholder, n, rf) ]

\* one iteration of the range loop, for the leader rand() chose
NewRange(i, n, rf, maxkey, leader) ==
    LET leaseholder == (leader + 1) % n
    IN [ id             |-> i,
         start          |-> i * range_size(n, maxkey),
         end            |-> IF i = total_ranges(n) - 1
                            THEN maxkey
                            ELSE (i + 1) * range_size(n, maxkey) - 1,
         leader_id      |-> leader,
         leaseholder_id |-> leaseholder,
         replicas_id    |-> {leader, leaseholder}
                              \cup RemainingReplicas(leaseholder, n, rf) ]

\* std::map operator[] assignment: insert or overwrite
MapPut(m, k, v) == [x \in DOMAIN m \cup {k} |-> IF x = k THEN v ELSE m[x]]

MapErase(m, k) == [x \in DOMAIN m \ {k} |-> m[x]]

IdleCall == [ pc |-> "idle", api |-> "none",
              cmd |-> [type |-> "READ", key |-> 0, value |-> 0],
              at |-> -1, rd |-> EmptyMap, todo |-> {}, result |-> 0,
              err |-> "none", path |-> <<>>, via |-> -1, by |-> -1,
              expect |-> -2 ]

InitBoot ==
    /\ number_of_nodes \in 0 .. MaxNodes
    /\ replication_factor \in 0 .. MaxNodes + 1
    /\ MAX_KEY \in 1 .. MaxKeyBound
    /\ ctor = "new"
    /\ loop_i = 0
    /\ interval_start_to_range_descriptor = EmptyMap
    /\ nodes_map_ = {}
    /\ key_value_store_ = EmptyMap
    /\ log_ = EmptyMap
    /\ call = [c \in Clients |-> IdleCall]
    /\ nops = 0
    /\ ref = EmptyMap
    /\ pre_store = [c \in Clients |-> EmptyMap]
    /\ pre_log = [c \in Clients |-> EmptyMap]
    /\ clients = {}

opvars == <<key_value_store_, log_, call, nops, ref, pre_store, pre_log, clients>>

\* the argument check at the head of the constructor, when it throws
CtorThrow ==
    /\ ctor = "new"
    /\ ConfigInvalid(number_of_nodes, replication_factor)
    /\ ctor' = "thrown"
    /\ UNCHANGED <<cfgvars, loop_i, interval_start_to_range_descriptor,
                   nodes_map_, opvars>>

\* the argument check at the head of the constructor, when it passes
CtorBegin ==
    /\ ctor = "new"
    /\ ~ConfigInvalid(number_of_nodes, replication_factor)
    /\ ctor' = "ranges"
    /\ UNCHANGED <<cfgvars, loop_i, interval_start_to_range_descriptor,
                   nodes_map_, opvars>>

\* one iteration of the range loop
CtorAddRange ==
    /\ ctor = "ranges"
    /\ loop_i < total_ranges(number_of_nodes)
    /\ \E leader \in 0 .. number_of_nodes - 1 :
         LET new_range == NewRange(loop_i, number_of_nodes, replication_factor,
                                   MAX_KEY, leader)
         IN interval_start_to_range_descriptor' =
              MapPut(interval_start_to_range_descriptor, new_range.start, new_range)
    /\ loop_i' = loop_i + 1
    /\ UNCHANGED <<cfgvars, ctor, nodes_map_, opvars>>

\* the two node loops that end the constructor
CtorCreateNodes ==
    /\ ctor = "ranges"
    /\ loop_i = total_ranges(number_of_nodes)
    /\ nodes_map_' = 0 .. number_of_nodes - 1
    /\ key_value_store_' = [n \in 0 .. number_of_nodes - 1 |-> EmptyMap]
    /\ log_' = [n \in 0 .. number_of_nodes - 1 |-> <<>>]
    /\ ctor' = "done"
    /\ UNCHANGED <<cfgvars, loop_i, interval_start_to_range_descriptor,
                   call, nops, ref, pre_store, pre_log, clients>>

NextBoot == CtorThrow \/ CtorBegin \/ CtorAddRange \/ CtorCreateNodes

SpecBoot == InitBoot /\ [][NextBoot]_vars

(************************ the cluster after bootstrap **********************)
RECURSIVE TableAfter(_, _, _, _, _)
\* the range table after the first k iterations of the range loop
TableAfter(k, n, rf, maxkey, leaders) ==
    IF k = 0 THEN EmptyMap
    ELSE LET new_range == NewRange(k - 1, n, rf, maxkey, leaders[k - 1])
         IN MapPut(TableAfter(k - 1, n, rf, maxkey, leaders),
                   new_range.start, new_range)

\* outcomes of the rand() calls of the range loop that the runs start from
RandOutcomes(n) ==
    { [i \in 0 .. total_ranges(n) - 1 |-> (b * i) % n] : b \in 0 .. n - 1 }

InitCluster(cl) ==
    /\ number_of_nodes = OpNodes
    /\ replication_factor = OpFactor
    /\ MAX_KEY = OpMaxKey
    /\ ctor = "done"
    /\ loop_i = total_ranges(OpNodes)
    /\ \E leaders \in RandOutcomes(OpNodes) :
         interval_start_to_range_descriptor =
            TableAfter(total_ranges(OpNodes), OpNodes, OpFactor, OpMaxKey, leaders)
    /\ nodes_map_ = 0 .. OpNodes - 1
    /\ key_value_store_ = [n \in 0 .. OpNodes - 1 |-> EmptyMap]
    /\ log_ = [n \in 0 .. OpNodes - 1 |-> <<>>]
    /\ call = [c \in Clients |-> IdleCall]
    /\ nops = 0
    /\ ref = EmptyMap
    /\ pre_store = [c \in Clients |-> EmptyMap]
    /\ pre_log = [c \in Clients |-> EmptyMap]
    /\ clients = cl

Init == InitCluster({1})

InitConc == InitCluster(Clients)

Descriptors ==
    { interval_start_to_range_descriptor[s] :
        s \in DOMAIN interval_start_to_range_descriptor }

(************************ Node: local state machine ************************)
\* a create that stores the value before it looks for the key
ApplyCreateOverwrite(kv, key, value) ==
    IF key \in DOMAIN kv
    THEN [result |-> -1, err |-> "AlreadyExists", kv |-> MapPut(kv, key, value)]
    ELSE [result |-> 0, err |-> "none", kv |-> MapPut(kv, key, value)]

ApplyCreate(kv, key, value) ==
    IF key \in DOMAIN kv
    THEN [result |-> -1, err |-> "AlreadyExists", kv |-> kv]
    ELSE [result |-> 0, err |-> "none", kv |-> MapPut(kv, key, value)]

\* a read through operator[] without the check: a missing key is inserted
ApplyReadInserting(kv, key) ==
    IF key \notin DOMAIN kv
    THEN [result |-> 0, err |-> "none", kv |-> MapPut(kv, key, 0)]
    ELSE [result |-> kv[key], err |-> "none", kv |-> kv]

ApplyRead(kv, key) ==
    IF key \notin DOMAIN kv
    THEN [result |-> -1, err |-> "NotFound", kv |-> kv]
    ELSE [result |-> kv[key], err |-> "none", kv |-> kv]

\* an update that reports success and keeps the old value
ApplyUpdateNoWrite(kv, key, new_value) ==
    IF key \notin DOMAIN kv
    THEN [result |-> -1, err |-> "NotFound", kv |-> kv]
    ELSE [result |-> 0, err |-> "none", kv |-> kv]

ApplyUpdate(kv, key, new_value) ==
    IF key \notin DOMAIN kv
    THEN [result |-> -1, err |-> "NotFound", kv |-> kv]
    ELSE [result |-> 0, err |-> "none", kv |-> MapPut(kv, key, new_value)]

ApplyDelete(kv, key) ==
    IF key \notin DOMAIN kv
    THEN [result |-> -1, err |-> "NotFound", kv |-> kv]
    ELSE [result |-> 0, err |-> "none", kv |-> MapErase(kv, key)]

\* comparing with the oldest entry instead of the newest
LogEntryFront(lg) == lg[1]

\* the entry of the log that ApplyCommand compares the command with
LogEntryToMatch(lg) == lg[Len(lg)]

\* an erase that clears the whole log
LogEraseAll(lg) == <<>>

\* the log once the compared entry is erased
LogErase(lg) == SubSeq(lg, 1, Len(lg) - 1)

SameCommand(command, entry) ==
    /\ command.type = entry.type
    /\ command.key = entry.key
    /\ command.value = entry.value

\* an apply that erases the entry only once the store operation succeeded
ApplyCommandEraseOnSuccess(id, command, range_descriptor, kv, lg) ==
    IF command.type = "READ"
    THEN LET r == ApplyRead(kv, command.key)
         IN [result |-> r.result, err |-> r.err, kv |-> r.kv, log |-> lg]
    ELSE IF lg = <<>>
    THEN [result |-> -1, err |-> "LogEmpty", kv |-> kv, log |-> lg]
    ELSE IF id \notin range_descriptor.replicas_id
    THEN [result |-> -1, err |-> "NotReplica", kv |-> kv, log |-> lg]
    ELSE IF ~(command.key >= range_descriptor.start
              /\ command.key <= range_descriptor.end)
    THEN [result |-> -1, err |-> "KeyNotInRange", kv |-> kv, log |-> lg]
    ELSE IF ~SameCommand(command, LogEntryToMatch(lg))
    THEN [result |-> -1, err |-> "NotInLog", kv |-> kv, log |-> lg]
    ELSE LET r == CASE command.type = "CREATE" ->
                         ApplyCreate(kv, command.key, command.value)
                    [] command.type = "UPDATE" ->
                         ApplyUpdate(kv, command.key, command.value)
                    [] command.type = "DELETE" ->
                         ApplyDelete(kv, command.key)
                    [] OTHER -> [result |-> -1, err |-> "BadType", kv |-> kv]
         IN [result |-> r.result, err |-> r.err, kv |-> r.kv,
             log |-> IF r.result < 0 THEN lg ELSE LogErase(lg)]

\* ApplyCommand run by node id on its store kv and its log lg
ApplyCommand(id, command, range_descriptor, kv, lg) ==
    IF command.type = "READ"
    THEN LET r == ApplyRead(kv, command.key)
         IN [result |-> r.result, err |-> r.err, kv |-> r.kv, log |-> lg]
    ELSE IF lg = <<>>
    THEN [result |-> -1, err |-> "LogEmpty", kv |-> kv, log |-> lg]
    ELSE IF id \notin range_descriptor.replicas_id
    THEN [result |-> -1, err |-> "NotReplica", kv |-> kv, log |-> lg]
    ELSE IF ~(command.key >= range_descriptor.start
              /\ command.key <= range_descriptor.end)
    THEN [result |-> -1, err |-> "KeyNotInRange", kv |-> kv, log |-> lg]
    ELSE IF ~SameCommand(command, LogEntryToMatch(lg))
    THEN [result |-> -1, err |-> "NotInLog", kv |-> kv, log |-> lg]
    ELSE LET r == CASE command.type = "CREATE" ->
                         ApplyCreate(kv, command.key, command.value)
                    [] command.type = "UPDATE" ->
                         ApplyUpdate(kv, command.key, command.value)
                    [] command.type = "DELETE" ->
                         ApplyDelete(kv, command.key)
                    [] OTHER -> [result |-> -1, err |-> "BadType", kv |-> kv]
         IN [result |-> r.result, err |-> r.err, kv |-> r.kv,
             log |-> LogErase(lg)]

\* a push that only prints
PushCommandToLogDrop(lg, command) == lg

PushCommandToLog(lg, command) == Append(lg, command)

(************************ Node: routing ************************************)
\* begin() in place of the floor search: the descriptor with the least start
LookupFirst(table, key) == table[Min(DOMAIN table)]

\* upper_bound(key) followed by it--: the descriptor with the greatest start <= key
Lookup(table, key) ==
    table[Max({s \in DOMAIN table : s <= key})]

\* a forward that goes straight to the leader
ForwardTargetLeader(range_descriptor) == range_descriptor.leader_id

\* the node SendCommand hands the command to when it is not the leaseholder
ForwardTarget(range_descriptor) == range_descriptor.leaseholder_id

\* a leaseholder that processes the command itself
LeaderTargetSelf(range_descriptor) == range_descriptor.leaseholder_id

\* the node SendCommandToLeader hands the command to
LeaderTarget(range_descriptor) == range_descriptor.leader_id

\* a loop bound that stops one replica early
OtherReplicasSkipLast(range_descriptor, id) ==
    (range_descriptor.replicas_id \ {id})
        \ {Max(range_descriptor.replicas_id \ {id})}

\* loops that visit every node of the cluster
OtherReplicasAllNodes(range_descriptor, id) == nodes_map_ \ {id}

\* the replicas a loop of ProcessCommand visits, the leader left out
OtherReplicas(range_descriptor, id) == range_descriptor.replicas_id \ {id}

\* a check of the apply result that never aborts
AbortNever(result) == FALSE

\* the check of an apply result in ProcessCommand: an error ends the command
AbortOnError(result) == result < 0

\* a leader check that lets every node through
NotTheLeaderNever(range_descriptor, id) == FALSE

\* the check at the head of ProcessCommand
NotTheLeader(range_descriptor, id) == range_descriptor.leader_id # id

\* the check at the head of SendCommandToLeader
NotTheLeaseholder(range_descriptor, id) == range_descriptor.leaseholder_id # id

\* Node::SendCommandToLeader run by node id for the call cl: the call after it
SendCommandToLeader(cl, id, range_descriptor) ==
    IF NotTheLeaseholder(range_descriptor, id)
    THEN [cl EXCEPT !.pc = "done", !.result = -1, !.err = "NotLeaseholder",
                    !.rd = range_descriptor]
    ELSE [cl EXCEPT !.pc = "ProcessCommand", !.rd = range_descriptor,
                    !.via = id, !.at = LeaderTarget(range_descriptor)]

\* Node::SendCommand run by the node the call is at
SendCommand(c) ==
    /\ call[c].pc = "SendCommand"
    /\ LET id == call[c].at
           command == call[c].cmd
           table == interval_start_to_range_descriptor
           seen == [call EXCEPT ![c].path = Append(@, id)]
       IN IF DOMAIN table = {}
          THEN call' = [seen EXCEPT ![c].pc = "done", ![c].result = -1,
                                    ![c].err = "EmptyTable"]
          ELSE IF {s \in DOMAIN table : s <= command.key} = {}
          THEN call' = [seen EXCEPT ![c].pc = "done", ![c].result = -1,
                                    ![c].err = "NoRange"]
          ELSE LET range_descriptor == Lookup(table, command.key)
               IN IF range_descriptor.leaseholder_id = id
                  THEN call' = [seen EXCEPT ![c] =
                                   SendCommandToLeader(@, id, range_descriptor)]
                  ELSE call' = [seen EXCEPT
                                   ![c].at = ForwardTarget(range_descriptor)]
    /\ UNCHANGED <<cfgvars, ctor, loop_i, interval_start_to_range_descriptor,
                   nodes_map_, key_value_store_, log_, nops, ref, pre_store,
                   pre_log, clients>>

(************************ Node: replicate then commit **********************)
\* Node::ProcessCommand up to the leader's own PushCommandToLog
ProcessCommand(c) ==
    /\ call[c].pc = "ProcessCommand"
    /\ LET id == call[c].at
           command == call[c].cmd
           range_descriptor == call[c].rd
           here == [call EXCEPT ![c].by = id]
       IN IF NotTheLeader(range_descriptor, id)
          THEN /\ call' = [here EXCEPT ![c].pc = "done", ![c].result = -1,
                                       ![c].err = "NotLeader"]
               /\ UNCHANGED <<key_value_store_, log_>>
          ELSE IF command.type = "READ"
          THEN LET r == ApplyCommand(id, command, range_descriptor,
                                     key_value_store_[id], log_[id])
               IN /\ call' = [here EXCEPT ![c].pc = "done",
                                 ![c].result = r.result, ![c].err = r.err]
                  /\ key_value_store_' = [key_value_store_ EXCEPT ![id] = r.kv]
                  /\ log_' = [log_ EXCEPT ![id] = r.log]
          ELSE /\ log_' = [log_ EXCEPT ![id] = PushCommandToLog(@, command)]
               /\ call' = [here EXCEPT
                             ![c].todo = OtherReplicas(range_descriptor, id),
                             ![c].pc = IF OtherReplicas(range_descriptor, id) = {}
                                       THEN "Commit" ELSE "Replicate"]
               /\ UNCHANGED key_value_store_
    /\ UNCHANGED <<cfgvars, ctor, loop_i, interval_start_to_range_descriptor,
                   nodes_map_, nops, ref, pre_store, pre_log, clients>>

\* one iteration of the first loop of ProcessCommand: PushCommandToLog on a replica
Replicate(c) ==
    /\ call[c].pc = "Replicate"
    /\ LET replica_id == Min(call[c].todo)
           rest == call[c].todo \ {replica_id}
       IN /\ log_' = [log_ EXCEPT ![replica_id] =
                         PushCommandToLog(@, call[c].cmd)]
          /\ call' = [call EXCEPT ![c].todo = rest,
                         ![c].pc = IF rest = {} THEN "Commit" ELSE "Replicate"]
    /\ UNCHANGED <<cfgvars, ctor, loop_i, interval_start_to_range_descriptor,
                   nodes_map_, key_value_store_, nops, ref, pre_store,
                   pre_log, clients>>

\* the leader's own ApplyCommand and the check of its result
Commit(c) ==
    /\ call[c].pc = "Commit"
    /\ LET id == call[c].at
           range_descriptor == call[c].rd
           r == ApplyCommand(id, call[c].cmd, range_descriptor,
                             key_value_store_[id], log_[id])
           others == OtherReplicas(range_descriptor, id)
       IN /\ key_value_store_' = [key_value_store_ EXCEPT ![id] = r.kv]
          /\ log_' = [log_ EXCEPT ![id] = r.log]
          /\ call' = [call EXCEPT
                        ![c].result = r.result, ![c].err = r.err,
                        ![c].todo = IF AbortOnError(r.result) THEN {} ELSE others,
                        ![c].pc = IF AbortOnError(r.result) \/ others = {}
                                  THEN "done" ELSE "ApplyReplicas"]
    /\ UNCHANGED <<cfgvars, ctor, loop_i, interval_start_to_range_descriptor,
                   nodes_map_, nops, ref, pre_store, pre_log, clients>>

\* one iteration of the second loop of ProcessCommand: ApplyCommand on a replica
ApplyReplicas(c) ==
    /\ call[c].pc = "ApplyReplicas"
    /\ LET replica_id == Min(call[c].todo)
           rest == call[c].todo \ {replica_id}
           r == ApplyCommand(replica_id, call[c].cmd, call[c].rd,
                             key_value_store_[replica_id], log_[replica_id])
       IN /\ key_value_store_' = [key_value_store_ EXCEPT ![replica_id] = r.kv]
          /\ log_' = [log_ EXCEPT ![replica_id] = r.log]
          /\ call' = [call EXCEPT
                        ![c].result = r.result, ![c].err = r.err,
                        ![c].todo = IF AbortOnError(r.result) THEN {} ELSE rest,
                        ![c].pc = IF AbortOnError(r.result) \/ rest = {}
                                  THEN "done" ELSE "ApplyReplicas"]
    /\ UNCHANGED <<cfgvars, ctor, loop_i, interval_start_to_range_descriptor,
                   nodes_map_, nops, ref, pre_store, pre_log, clients>>

(************************ DistributionLayer: client API ********************)
\* keys and values the clients call the API with
KeyInputs ==
    IF Cardinality(clients) > 1
    THEN {0, MAX_KEY - 1, MAX_KEY, MAX_KEY + 1}
    ELSE {-1, 0, MAX_KEY, MAX_KEY + 1}

ValueInputs == {-1, 0, 1}

OpsLimit == IF Cardinality(clients) > 1 THEN MaxConcOps ELSE MaxOps

\* a client may call when it is not inside a call
CanCall(c) ==
    /\ ctor = "done"
    /\ c \in clients
    /\ call[c].pc \in {"idle", "done"}
    /\ nops < OpsLimit

\* what the single key space answers to a call, and what it becomes
RefOutcome(m, type, key, value) ==
    CASE type = "CREATE" -> IF key \in DOMAIN m THEN -1 ELSE 0
      [] type = "READ"   -> IF key \in DOMAIN m THEN m[key] ELSE -1
      [] type = "UPDATE" -> IF key \in DOMAIN m THEN 0 ELSE -1
      [] type = "DELETE" -> IF key \in DOMAIN m THEN 0 ELSE -1

RefApply(m, type, key, value) ==
    CASE type = "CREATE" -> IF key \in DOMAIN m THEN m ELSE MapPut(m, key, value)
      [] type = "READ"   -> m
      [] type = "UPDATE" -> IF key \in DOMAIN m THEN MapPut(m, key, value) ELSE m
      [] type = "DELETE" -> MapErase(m, key)

\* the argument checks of Insert and Update without the check of the value
WriteRejectedKeyOnly(key, value) == key < 0 \/ key > MAX_KEY

\* the argument checks of Insert and Update
WriteRejected(key, value) == (key < 0 \/ value < 0) \/ key > MAX_KEY

\* the argument checks of Get and Remove
KeyRejected(key) == key < 0 \/ key > MAX_KEY

\* the body shared by the four client methods
ClientCall(c, api, rejected, type, key, value) ==
    /\ nops' = nops + 1
    /\ IF Cardinality(clients) > 1
       THEN UNCHANGED <<pre_store, pre_log>>
       ELSE /\ pre_store' = [pre_store EXCEPT ![c] = key_value_store_]
            /\ pre_log' = [pre_log EXCEPT ![c] = log_]
    /\ IF rejected
       THEN /\ call' = [call EXCEPT ![c] =
                  [IdleCall EXCEPT !.pc = "done", !.api = api,
                      !.cmd = [type |-> type, key |-> key, value |-> value],
                      !.result = -1, !.err = "Validation", !.expect = -1]]
            /\ ref' = ref
       ELSE /\ \E chosen_node \in 0 .. number_of_nodes - 1 :
                 call' = [call EXCEPT ![c] =
                    [IdleCall EXCEPT !.pc = "SendCommand", !.api = api,
                       !.cmd = [type |-> type, key |-> key, value |-> value],
                       !.at = chosen_node,
                       !.expect = RefOutcome(ref, type, key, value)]]
            /\ ref' = RefApply(ref, type, key, value)
    /\ UNCHANGED <<cfgvars, ctor, loop_i, interval_start_to_range_descriptor,
                   nodes_map_, key_value_store_, log_, clients>>

Insert(c) ==
    /\ CanCall(c)
    /\ \E key \in KeyInputs, value \in ValueInputs :
         ClientCall(c, "Insert", WriteRejected(key, value), "CREATE", key, value)

Get(c) ==
    /\ CanCall(c)
    /\ \E key \in KeyInputs :
         ClientCall(c, "Get", KeyRejected(key), "READ", key, 0)

Update(c) ==
    /\ CanCall(c)
    /\ \E key \in KeyInputs, new_value \in ValueInputs :
         ClientCall(c, "Update", WriteRejected(key, new_value), "UPDATE",
                    key, new_value)

Remove(c) ==
    /\ CanCall(c)
    /\ \E key \in KeyInputs :
         ClientCall(c, "Remove", KeyRejected(key), "DELETE", key, 0)

Next ==
    \E c \in Clients :
        \/ Insert(c)
        \/ Get(c)
        \/ Update(c)
        \/ Remove(c)
        \/ SendCommand(c)
        \/ ProcessCommand(c)
        \/ Replicate(c)
        \/ Commit(c)
        \/ ApplyReplicas(c)

\* client calls run one at a time
Spec == Init /\ [][Next]_vars

\* client calls of two clients run concurrently
SpecConc == InitConc /\ [][Next]_vars

\* the steps a node takes inside a call: the calls are synchronous, so a
\* call that has entered a node keeps running until it returns
NodeSteps ==
    \E c \in Clients :
        \/ SendCommand(c)
        \/ ProcessCommand(c)
        \/ Replicate(c)
        \/ Commit(c)
        \/ ApplyReplicas(c)

\* the number of client calls of one behaviour of SpecFair
MaxFairOps == 2

NextFair ==
    \/ /\ nops < MaxFairOps
       /\ \E c \in Clients : Insert(c) \/ Get(c) \/ Update(c) \/ Remove(c)
    \/ NodeSteps

\* client calls run one at a time and every call that started runs on
SpecFair == Init /\ [][NextFair]_vars /\ WF_vars(NodeSteps)

(************************ Node methods invoked directly ********************)
\* the number of direct calls of one behaviour
MaxNodeOps == 2

CommandInputs ==
    { [type |-> t, key |-> k, value |-> 1] :
        t \in {"CREATE", "READ", "UPDATE", "DELETE"}, k \in {0, MAX_KEY} }

\* the descriptors the methods are called with: those of the keys' ranges
DescriptorInputs == { Lookup(interval_start_to_range_descriptor, k) : k \in {0, MAX_KEY} }

\* a call that enters at a method of a node with a descriptor of the table
DirectCall(c, cl) ==
    /\ CanCall(c)
    /\ nops < MaxNodeOps
    /\ nops' = nops + 1
    /\ pre_store' = [pre_store EXCEPT ![c] = key_value_store_]
    /\ pre_log' = [pre_log EXCEPT ![c] = log_]
    /\ call' = [call EXCEPT ![c] = cl]
    /\ UNCHANGED <<cfgvars, ctor, loop_i, interval_start_to_range_descriptor,
                   nodes_map_, key_value_store_, log_, ref, clients>>

\* Node::ProcessCommand called on any node
InvokeProcessCommand(c) ==
    \E id \in nodes_map_, range_descriptor \in DescriptorInputs,
       command \in CommandInputs :
        DirectCall(c, [IdleCall EXCEPT !.pc = "ProcessCommand",
                          !.api = "ProcessCommand", !.cmd = command,
                          !.at = id, !.rd = range_descriptor])

\* Node::SendCommandToLeader called on any node
InvokeSendCommandToLeader(c) ==
    \E id \in nodes_map_, range_descriptor \in DescriptorInputs,
       command \in CommandInputs :
        DirectCall(c, SendCommandToLeader(
                          [IdleCall EXCEPT !.api = "SendCommandToLeader",
                              !.cmd = command, !.at = id],
                          id, range_descriptor))

NextNode ==
    \E c \in Clients :
        \/ InvokeProcessCommand(c)
        \/ InvokeSendCommandToLeader(c)
        \/ ProcessCommand(c)
        \/ Replicate(c)
        \/ Commit(c)
        \/ ApplyReplicas(c)

\* the two guarded methods of Node called on any node, one call at a time
SpecNode == Init /\ [][NextNode]_vars

(************************ properties ***************************************)
\* the range that owns a key: the descriptor whose interval holds it
Owner(key) == CHOOSE d \in Descriptors : d.start <= key /\ key <= d.end

InDomain(cl) ==
    /\ cl.api # "none"
    /\ cl.cmd.key >= 0
    /\ cl.cmd.key <= MAX_KEY
    /\ (cl.api \in {"Insert", "Update"} => cl.cmd.value >= 0)

OutOfDomain(cl) == cl.api # "none" /\ ~InDomain(cl)

Holds(n, k) == k \in DOMAIN key_value_store_[n]

Quiescent == \A c \in Clients : call[c].pc \in {"idle", "done"}

\* C1 (write durability): with client calls run one at a time, once an
\* Insert(k,v) or Update(k,v) has returned success every node in replicas_id
\* of the range owning k maps k to v, and once a Remove(k) has returned
\* success no node of that replicas_id holds k.
C1_WriteDurability ==
    \A c \in Clients :
        (call[c].pc = "done" /\ call[c].result >= 0
            /\ call[c].api \in {"Insert", "Update", "Remove"})
        => LET k == call[c].cmd.key
               v == call[c].cmd.value
               R == Owner(k).replicas_id
           IN IF call[c].api = "Remove"
              THEN \A n \in R : ~Holds(n, k)
              ELSE \A n \in R : Holds(n, k) /\ key_value_store_[n][k] = v

C1_Witness ==
    /\ call[1].pc = "done"
    /\ call[1].api = "Update"
    /\ call[1].result >= 0
    /\ call[1].cmd.value = 1

\* C2 (replica agreement): whenever no client call is in progress, for every
\* range and every key of it, the nodes in replicas_id either all lack the key
\* or all hold it with the same value.
C2_ReplicaAgreement ==
    Quiescent =>
        \A d \in Descriptors : \A k \in d.start .. d.end :
            \A n1 \in d.replicas_id, n2 \in d.replicas_id :
                /\ Holds(n1, k) <=> Holds(n2, k)
                /\ Holds(n1, k) =>
                      key_value_store_[n1][k] = key_value_store_[n2][k]

C2_Witness ==
    /\ Quiescent
    /\ nops = 3
    /\ call[1].result >= 0
    /\ \E n \in nodes_map_ : key_value_store_[n] # EmptyMap
    /\ \E n \in nodes_map_ : log_[n] # <<>>

\* C3 (single key space): every in-domain call, whatever node it entered at,
\* returns what one reference map returns: Insert succeeds iff the key is
\* absent, Update and Remove iff it is present, Get returns the latest value
\* written and not removed, and fails otherwise.
C3_SingleKeySpace ==
    \A c \in Clients :
        (call[c].pc = "done" /\ InDomain(call[c]))
        => call[c].result = call[c].expect

C3_Witness ==
    /\ call[1].pc = "done"
    /\ call[1].api = "Get"
    /\ call[1].result = 1
    /\ nops = 3
    /\ Len(call[1].path) = 2

\* C4 (routing convergence): a command for a key of [0, MAX_KEY] is handed
\* to the leader by the leaseholder of the range owning the key and is
\* processed by that range's leader, whatever node it entered at.
C4_RoutingConvergence ==
    \A c \in Clients :
        LET d == Owner(call[c].cmd.key)
        IN /\ call[c].pc = "ProcessCommand" =>
                 /\ call[c].via = d.leaseholder_id
                 /\ call[c].at = d.leader_id
                 /\ call[c].path[Len(call[c].path)] = d.leaseholder_id
           /\ (call[c].pc \in {"Replicate", "Commit", "ApplyReplicas"}
                 \/ (call[c].pc = "done" /\ InDomain(call[c]))) =>
                 /\ call[c].via = d.leaseholder_id
                 /\ call[c].by = d.leader_id
                 /\ call[c].at = d.leader_id

C4_Witness ==
    /\ call[1].pc = "done"
    /\ InDomain(call[1])
    /\ Len(call[1].path) = 2
    /\ call[1].path[1] # call[1].via
    /\ call[1].by = Owner(call[1].cmd.key).leader_id

Covered(d) == d.start .. d.end

\* C5 (partition coverage): the descriptors of the table the constructor
\* builds have start <= end, are pairwise disjoint, and their union is
\* exactly [0, MAX_KEY].
C5_PartitionCoverage ==
    ctor = "done" =>
        /\ \A d \in Descriptors : d.start <= d.end
        /\ \A d1 \in Descriptors, d2 \in Descriptors :
              d1 # d2 => Covered(d1) \cap Covered(d2) = {}
        /\ UNION { Covered(d) : d \in Descriptors } = 0 .. MAX_KEY

C5_Witness ==
    /\ ctor = "done"
    /\ Cardinality(Descriptors) = total_ranges(number_of_nodes)
    /\ MAX_KEY % total_ranges(number_of_nodes) # 0
    /\ \E d \in Descriptors : d.end - d.start > range_size(number_of_nodes, MAX_KEY)

\* C6 (range count): the table the constructor builds has exactly
\* 2 * node_count descriptors, all of the same size except the last, which
\* ends at MAX_KEY.
C6_RangeCount ==
    ctor = "done" =>
        /\ Cardinality(Descriptors) = 2 * number_of_nodes
        /\ \A d \in Descriptors :
              IF d.id = 2 * number_of_nodes - 1
              THEN d.end = MAX_KEY
              ELSE d.end - d.start + 1 = range_size(number_of_nodes, MAX_KEY)

\* the key of a call was held by some node when the call started
ExistedBefore(c) ==
    \E n \in nodes_map_ : call[c].cmd.key \in DOMAIN pre_store[c][n]

\* C7 (state-machine guards): an in-domain Insert of a key that exists fails
\* with AlreadyExists, an in-domain Get, Update or Remove of a key that is
\* absent fails with NotFound, and in both cases every node's store is what
\* it was before the call.
C7_StateMachineGuards ==
    \A c \in Clients :
        (call[c].pc = "done" /\ InDomain(call[c])) =>
            /\ (call[c].api = "Insert" /\ ExistedBefore(c)) =>
                  /\ call[c].result < 0
                  /\ call[c].err = "AlreadyExists"
                  /\ key_value_store_ = pre_store[c]
            /\ (call[c].api \in {"Get", "Update", "Remove"} /\ ~ExistedBefore(c)) =>
                  /\ call[c].result < 0
                  /\ call[c].err = "NotFound"
                  /\ key_value_store_ = pre_store[c]

C7_Witness ==
    /\ call[1].pc = "done"
    /\ call[1].api = "Insert"
    /\ call[1].err = "AlreadyExists"
    /\ ExistedBefore(1)
    /\ call[1].cmd.value # pre_store[1][call[1].by][call[1].cmd.key]

\* C8 (input validation): a call with key < 0, key > MAX_KEY or, for Insert
\* and Update, value < 0 returns an error without SendCommand or
\* ProcessCommand running on any node, and changes no store and no log.
C8_InputValidation ==
    \A c \in Clients :
        OutOfDomain(call[c]) =>
            /\ call[c].pc = "done"
            /\ call[c].result < 0
            /\ call[c].path = <<>>
            /\ call[c].by = -1
            /\ key_value_store_ = pre_store[c]
            /\ log_ = pre_log[c]

C8_Witness ==
    /\ call[1].pc = "done"
    /\ call[1].api = "Update"
    /\ call[1].cmd.value < 0
    /\ call[1].cmd.key \in 0 .. MAX_KEY
    /\ Holds(Owner(call[1].cmd.key).leader_id, call[1].cmd.key)

\* C9 as stated (reads answered by the leaseholder): a Get is served by the
\* leaseholder of the range and never runs on the range's leader.
C9_ReadsAtLeaseholder ==
    \A c \in Clients :
        (call[c].api = "Get" /\ InDomain(call[c])) =>
            /\ call[c].pc # "ProcessCommand"
            /\ call[c].by \in {-1, Owner(call[c].cmd.key).leaseholder_id}

\* C9 (amended: reads answered by the leader): the leaseholder hands a Read
\* to the range's leader as it does a write, and the Read is answered from
\* the leader's store; the leader is a node other than the leaseholder.
C9_ReadsAtLeader ==
    \A c \in Clients :
        (call[c].api = "Get" /\ InDomain(call[c]) /\ call[c].pc = "done") =>
            LET d == Owner(call[c].cmd.key)
                kv == key_value_store_[d.leader_id]
            IN /\ call[c].via = d.leaseholder_id
               /\ call[c].by = d.leader_id
               /\ d.leader_id # d.leaseholder_id
               /\ call[c].result = ApplyRead(kv, call[c].cmd.key).result

C9_Witness ==
    /\ call[1].pc = "done"
    /\ call[1].api = "Get"
    /\ call[1].result >= 0
    /\ call[1].by = Owner(call[1].cmd.key).leader_id
    /\ call[1].by # call[1].via

\* a write is between the leader's own log append and its last replica apply
InProtocol(c) == call[c].pc \in {"Replicate", "Commit", "ApplyReplicas"}

\* C10 (same-range serialization): two writes to the same range submitted
\* concurrently are never both inside the replicate-then-commit steps: one
\* finishes its log appends, leader apply and replica applies before the
\* other begins.
C10_SameRangeSerialized ==
    \A c1 \in Clients, c2 \in Clients :
        (c1 # c2 /\ InProtocol(c1) /\ InProtocol(c2))
        => call[c1].rd.id # call[c2].rd.id

\* both clients have finished one Insert each, on keys of different ranges,
\* in a cluster whose stores were empty when the two calls were submitted
TwoInsertsDifferentRanges ==
    /\ nops = 2
    /\ \A c \in Clients :
          /\ call[c].pc = "done"
          /\ call[c].api = "Insert"
          /\ InDomain(call[c])
    /\ Owner(call[1].cmd.key).id # Owner(call[2].cmd.key).id

\* C11 (different-range concurrency): two writes to different ranges that
\* would each succeed alone, submitted concurrently, both succeed under every
\* interleaving, also when the ranges share replica nodes, and the replicas
\* of each range hold that range's write.
C11_DifferentRangesBothSucceed ==
    TwoInsertsDifferentRanges =>
        \A c \in Clients :
            /\ call[c].result >= 0
            /\ \A n \in Owner(call[c].cmd.key).replicas_id :
                  /\ Holds(n, call[c].cmd.key)
                  /\ key_value_store_[n][call[c].cmd.key] = call[c].cmd.value

\* C12 (bootstrap rejection): the constructor throws, and creates no node,
\* exactly when node_count < 3, replication_factor < 3 or
\* replication_factor > node_count; otherwise it goes on to build the cluster.
C12_BootstrapRejection ==
    LET bad == \/ number_of_nodes < 3
               \/ replication_factor < 3
               \/ replication_factor > number_of_nodes
    IN /\ ctor = "thrown" => (bad /\ nodes_map_ = {}
                                  /\ interval_start_to_range_descriptor = EmptyMap)
       /\ ctor \in {"ranges", "done"} => ~bad
       /\ ctor = "done" => nodes_map_ = 0 .. number_of_nodes - 1

C12_Witness ==
    /\ ctor = "thrown"
    /\ number_of_nodes >= 3
    /\ replication_factor > number_of_nodes

\* C20 (replica-set shape): every descriptor the constructor produces has its
\* leader and its leaseholder in replicas_id, a leaseholder that is the
\* leader's successor and differs from it, and exactly replication_factor
\* node ids in replicas_id: the leader and the replication_factor - 1 nodes
\* that follow it round-robin.
C20_ReplicaSetShape ==
    \A d \in Descriptors :
        /\ d.leader_id \in d.replicas_id
        /\ d.leaseholder_id \in d.replicas_id
        /\ d.leaseholder_id # d.leader_id
        /\ d.leaseholder_id = (d.leader_id + 1) % number_of_nodes
        /\ Cardinality(d.replicas_id) = replication_factor
        /\ d.replicas_id =
              { (d.leader_id + j) % number_of_nodes :
                  j \in 0 .. replication_factor - 1 }
        /\ d.replicas_id \subseteq 0 .. number_of_nodes - 1

C20_Witness ==
    /\ ctor = "done"
    /\ replication_factor < number_of_nodes
    /\ \E d \in Descriptors :
          /\ d.leader_id = number_of_nodes - 1
          /\ d.leaseholder_id = 0
    /\ Cardinality(Descriptors) = total_ranges(number_of_nodes)

IsWrite(cl) == cl.api \in {"Insert", "Update", "Remove"}

\* C13 (replicate before commit): during a write no store is mutated for the
\* command until the command has been appended to the log of every node in
\* replicas_id, the leader included.
C13_ReplicateBeforeCommit ==
    \A c \in Clients :
        (IsWrite(call[c]) /\ InDomain(call[c])) =>
            /\ call[c].pc \in {"SendCommand", "ProcessCommand", "Replicate", "Commit"}
                  => key_value_store_ = pre_store[c]
            /\ call[c].pc \in {"Commit", "ApplyReplicas"} =>
                  \A n \in call[c].rd.replicas_id :
                      Len(log_[n]) > Len(pre_log[c][n])
                        => log_[n] = Append(pre_log[c][n], call[c].cmd)
            /\ call[c].pc = "Commit" =>
                  \A n \in call[c].rd.replicas_id :
                      log_[n] = Append(pre_log[c][n], call[c].cmd)

C13_Witness ==
    /\ call[1].pc = "ApplyReplicas"
    /\ key_value_store_ # pre_store[1]
    /\ \E n \in call[1].rd.replicas_id :
          /\ Len(pre_log[1][n]) > 0
          /\ log_[n] = Append(pre_log[1][n], call[1].cmd)

\* C14 (abort on leader apply failure): when the leader's apply of a write
\* fails the call returns that error, no other replica applies (every store
\* is as before the call), and the command stays in the log of every
\* non-leader replica.
C14_AbortOnLeaderFailure ==
    \A c \in Clients :
        (call[c].pc = "done" /\ IsWrite(call[c]) /\ InDomain(call[c])
            /\ call[c].result < 0) =>
            /\ call[c].err \in {"AlreadyExists", "NotFound"}
            /\ key_value_store_ = pre_store[c]
            /\ \A n \in call[c].rd.replicas_id \ {call[c].rd.leader_id} :
                  log_[n] = Append(pre_log[c][n], call[c].cmd)
            /\ \A n \in nodes_map_ \ call[c].rd.replicas_id :
                  log_[n] = pre_log[c][n]

C14_Witness ==
    /\ call[1].pc = "done"
    /\ call[1].api = "Remove"
    /\ call[1].err = "NotFound"
    /\ key_value_store_ # [n \in nodes_map_ |-> EmptyMap]
    /\ \E n \in call[1].rd.replicas_id : Len(log_[n]) = 2

\* C15 as stated (pending entry removal): an apply that fails with
\* AlreadyExists or NotFound leaves the command in the log of the node that
\* ran it.
C15_FailedApplyKeepsEntry ==
    \A c \in Clients :
        (call[c].pc = "done" /\ IsWrite(call[c]) /\ InDomain(call[c])
            /\ call[c].err \in {"AlreadyExists", "NotFound"}) =>
            log_[call[c].by] = Append(pre_log[c][call[c].by], call[c].cmd)

\* C15 (amended): a node's apply removes the command from the node's log as
\* soon as it matches the newest entry, before the store operation runs: an
\* apply that fails with AlreadyExists or NotFound has removed the entry from
\* that node's log, and the stores are unchanged.
C15_FailedApplyRemovesEntry ==
    \A c \in Clients :
        (call[c].pc = "done" /\ IsWrite(call[c]) /\ InDomain(call[c])
            /\ call[c].err \in {"AlreadyExists", "NotFound"}) =>
            /\ log_[call[c].by] = pre_log[c][call[c].by]
            /\ key_value_store_ = pre_store[c]

C15_Witness ==
    /\ call[1].pc = "done"
    /\ call[1].api = "Insert"
    /\ call[1].err = "AlreadyExists"
    /\ log_[call[1].by] = pre_log[1][call[1].by]
    /\ \E n \in call[1].rd.replicas_id : log_[n] # pre_log[1][n]

\* the node whose ApplyCommand the next step of a call runs
ApplyingNode(c) ==
    IF call[c].pc = "Commit" THEN call[c].at ELSE Min(call[c].todo)

Applying(c) ==
    /\ call[c].pc \in {"Commit", "ApplyReplicas"}
    /\ call'[c] # call[c]

\* the sequence without its i-th element
RemoveAt(lg, i) == SubSeq(lg, 1, i - 1) \o SubSeq(lg, i + 1, Len(lg))

\* C16 (pending log order): whenever an apply removes an entry from a node's
\* log, the entry removed is the oldest one of that log and equals the
\* applied command.
C16_OldestEntryConsumed ==
    [][ \A c \in Clients : Applying(c) =>
          LET n == ApplyingNode(c)
          IN Len(log_'[n]) < Len(log_[n]) =>
                /\ log_'[n] = Tail(log_[n])
                /\ SameCommand(call[c].cmd, Head(log_[n])) ]_vars

\* C17 (log matching): the log-matching step of a write apply rejects the
\* command, leaving the node's store and log unchanged, exactly when no entry
\* of the node's log equals the command; when an entry equals it, wherever it
\* sits, the apply removes one such entry.
C17_LogMatching ==
    [][ \A c \in Clients : Applying(c) =>
          LET n == ApplyingNode(c)
              command == call[c].cmd
              matches == { i \in 1 .. Len(log_[n]) :
                             SameCommand(command, log_[n][i]) }
              rejected == call'[c].err \in {"LogEmpty", "NotInLog"}
          IN /\ rejected <=> matches = {}
             /\ rejected => /\ log_'[n] = log_[n]
                            /\ key_value_store_'[n] = key_value_store_[n]
             /\ matches # {} =>
                   \E i \in matches : log_'[n] = RemoveAt(log_[n], i) ]_vars

\* C18 (reads bypass replication): a Get, from its call to its return and
\* whatever node it enters at, changes no log and no store, and it returns
\* the leader's value of the key whatever the logs hold.
C18_ReadsBypassReplication ==
    \A c \in Clients :
        call[c].api = "Get" =>
            /\ key_value_store_ = pre_store[c]
            /\ log_ = pre_log[c]
            /\ (call[c].pc = "done" /\ InDomain(call[c])) =>
                  LET kv == key_value_store_[Owner(call[c].cmd.key).leader_id]
                      k == call[c].cmd.key
                  IN call[c].result = IF k \in DOMAIN kv THEN kv[k] ELSE -1

C18_Witness ==
    /\ call[1].pc = "done"
    /\ call[1].api = "Get"
    /\ call[1].result >= 0
    /\ log_[call[1].by] # <<>>
    /\ Len(call[1].path) = 2

\* C19 (leader-only execution): the log appends and applies of a range are
\* driven only by the node whose id is the range's leader_id; a
\* ProcessCommand called on another node, and a SendCommandToLeader called on
\* a node that is not the leaseholder, return an error and change no store
\* and no log.
C19_LeaderOnlyExecution ==
    \A c \in Clients :
        /\ InProtocol(c) => call[c].at = call[c].rd.leader_id
        /\ (call[c].api = "ProcessCommand" /\ call[c].pc = "done"
              /\ call[c].by # call[c].rd.leader_id) =>
                 /\ call[c].result < 0
                 /\ call[c].err = "NotLeader"
                 /\ key_value_store_ = pre_store[c]
                 /\ log_ = pre_log[c]
        /\ call[c].api = "SendCommandToLeader" =>
              IF call[c].via = -1
              THEN /\ call[c].at # call[c].rd.leaseholder_id
                   /\ call[c].pc = "done"
                   /\ call[c].result < 0
                   /\ call[c].err = "NotLeaseholder"
                   /\ key_value_store_ = pre_store[c]
                   /\ log_ = pre_log[c]
              ELSE call[c].via = call[c].rd.leaseholder_id

C19_Witness ==
    /\ call[1].api = "ProcessCommand"
    /\ call[1].pc = "done"
    /\ call[1].err = "NotLeader"
    /\ call[1].by \in call[1].rd.replicas_id
    /\ call[1].cmd.type = "UPDATE"
    /\ call[1].cmd.key \in DOMAIN key_value_store_[call[1].by]

\* C21 (bounded forwarding): SendCommand runs on at most two nodes for one
\* client operation, the second one being the leaseholder reached in one hop
\* from the entry node, the leaseholder hands the command to the leader in
\* one hop, and every call that entered SendCommand ends with a result.
C21_BoundedForwarding ==
    /\ [](\A c \in Clients :
            /\ Len(call[c].path) <= 2
            /\ Len(call[c].path) = 2 =>
                  /\ call[c].path[1] # call[c].path[2]
                  /\ call[c].path[2] =
                        Lookup(interval_start_to_range_descriptor,
                               call[c].cmd.key).leaseholder_id
            /\ (InProtocol(c) \/ call[c].pc = "ProcessCommand") =>
                  /\ call[c].via = call[c].path[Len(call[c].path)]
                  /\ call[c].at = call[c].rd.leader_id)
    /\ \A c \in Clients :
          (call[c].pc = "SendCommand") ~> (call[c].pc = "done")

C21_Witness ==
    /\ call[1].pc = "done"
    /\ call[1].api = "Remove"
    /\ call[1].result = 0
    /\ Len(call[1].path) = 2
    /\ call[1].path[1] = call[1].rd.leader_id

\* C22 (replica apply cannot fail after the leader's succeeded): with client
\* calls run one at a time, every apply of a write on a replica that follows
\* the leader's successful apply succeeds, so a write that returns an error
\* has changed no store: no state has some replicas with the write applied
\* and a later replica that rejected it.
C22_ReplicaApplyCannotFail ==
    /\ [][\A c \in Clients :
            call[c].pc = "ApplyReplicas" => call[c].result' >= 0]_vars
    /\ [](\A c \in Clients :
            (call[c].pc = "done" /\ call[c].result < 0) =>
                key_value_store_ = pre_store[c])

C22_Witness ==
    /\ call[1].pc = "done"
    /\ call[1].api = "Insert"
    /\ call[1].result = 0
    /\ \E n \in call[1].rd.replicas_id \ {call[1].by} :
          /\ log_[n] # <<>>
          /\ Holds(n, call[1].cmd.key)

\* the write of a call got as far as the leader's apply and failed there
FailedAtLeader(c) ==
    /\ call[c].pc = "done"
    /\ IsWrite(call[c])
    /\ call[c].by # -1
    /\ call[c].by = call[c].rd.leader_id
    /\ call[c].result < 0

IsPrefix(s, t) == Len(s) <= Len(t) /\ SubSeq(t, 1, Len(s)) = s

\* C23 (stale pending entries accumulate): with client calls run one at a
\* time, a write that failed at the leader's apply leaves exactly one more
\* entry, the command, at the end of the log of every non-leader replica of
\* its range and leaves every other log as it was; every other call leaves
\* every log as it was before the call; and no step ever removes an entry
\* that was in a log when the call started. The logs start empty, so between
\* calls each log is the sequence, in submission order, of those failed writes.
C23_StalePendingEntriesAccumulate ==
    \A c \in Clients :
        call[c].api # "none" =>
            /\ \A n \in nodes_map_ : IsPrefix(pre_log[c][n], log_[n])
            /\ call[c].pc = "done" =>
                  \A n \in nodes_map_ :
                      log_[n] =
                          IF FailedAtLeader(c)
                               /\ n \in call[c].rd.replicas_id \ {call[c].by}
                          THEN Append(pre_log[c][n], call[c].cmd)
                          ELSE pre_log[c][n]

C23_Witness ==
    /\ call[1].pc = "done"
    /\ call[1].api = "Insert"
    /\ call[1].result = 0
    /\ \E n \in call[1].rd.replicas_id :
          /\ Len(log_[n]) = 2
          /\ log_[n][1].type # log_[n][2].type
          /\ log_[n][1].key = call[1].cmd.key

\* C24 (locality of effects): a client write to a key of range R leaves the
\* store and the log of every node outside R.replicas_id as they were when
\* the call started, at every step of the call, and a node's store holds a
\* key only if the node is in replicas_id of the range owning the key.
C24_LocalityOfEffects ==
    /\ \A c \in Clients :
          (IsWrite(call[c]) /\ InDomain(call[c])) =>
              \A n \in nodes_map_ \ Owner(call[c].cmd.key).replicas_id :
                  /\ key_value_store_[n] = pre_store[c][n]
                  /\ log_[n] = pre_log[c][n]
    /\ \A n \in nodes_map_ : \A k \in DOMAIN key_value_store_[n] :
          /\ k \in 0 .. MAX_KEY
          /\ n \in Owner(k).replicas_id

C24_Witness ==
    /\ call[1].pc = "done"
    /\ call[1].api = "Insert"
    /\ call[1].result = 0
    /\ \E n \in nodes_map_ \ call[1].rd.replicas_id :
          /\ key_value_store_[n] # EmptyMap
          /\ log_[n] # <<>>

\* C25 (result encoding): every stored key lies in [0, MAX_KEY] and every
\* stored value is >= 0, so a Get returns a negative result if and only if
\* the read failed, and what a successful Get returns is the stored value.
C25_ResultEncoding ==
    /\ \A n \in nodes_map_ : \A k \in DOMAIN key_value_store_[n] :
          /\ k >= 0
          /\ k <= MAX_KEY
          /\ key_value_store_[n][k] >= 0
    /\ \A c \in Clients :
          (call[c].pc = "done" /\ call[c].api = "Get") =>
              /\ call[c].result < 0 <=> call[c].err # "none"
              /\ call[c].err = "none" =>
                    /\ Holds(call[c].by, call[c].cmd.key)
                    /\ call[c].result =
                          key_value_store_[call[c].by][call[c].cmd.key]

C25_Witness ==
    /\ call[1].pc = "done"
    /\ call[1].api = "Get"
    /\ call[1].err = "none"
    /\ call[1].result = 0
    /\ call[1].cmd.key = MAX_KEY

====
